---- MODULE Spec2Model ----
(***************************************************************************)
(* Model of rh-options: the resumable options-chain downloader             *)
(* (download_options_chain.py) and the analytics over its output table     *)
(* (analyze_options_chain.py).                                             *)
(*                                                                         *)
(* Spec          : a sequence of download runs against one output file.    *)
(* SpecTargets   : the same runs, for any symbol, against any file found   *)
(*                 at the output path.                                     *)
(* SpecRatios, SpecMaxPain, SpecUnusual : one analytics function each,     *)
(*                 applied to the tables of its family.                    *)
(***************************************************************************)
EXTENDS Integers, Sequences, FiniteSets, TLC

\* ------------------------------------------------------------------ bounds
NumExp   == 3   \* expiration dates the catalog can list (1 < 2 < 3 as dates)
NumInstr == 2   \* instruments the catalog can list for one expiration
MaxRuns  == 3   \* runs of download_full_chain against the same output file
MaxFaults == 2  \* deviations the environment injects in one behaviour: a
                \* catalog answer other than the full list, a failed, empty or
                \* short listing, an option without a record, an interrupt

Exps == 1..NumExp

\* The tickers a run can be started for; a sequence of runs of Spec is for
\* the first of them.
Symbols == { "NVDA", "TSLA" }
Ticker == "NVDA"

VARIABLES
    file,                   \* the output CSV: [exists, header, rows, format]
    pc,                     \* position of the current run
    symbol,                 \* argument of download_full_chain
    continue_mode,          \* argument of download_full_chain
    expiration_dates,       \* local of download_full_chain
    completed_expirations,  \* local of download_full_chain
    is_first_write,         \* local of download_full_chain
    idx,                    \* position of the for loop in expiration_dates
    options_data,           \* result of fetch_options_for_expiration
    total_options, skipped, fetched,   \* session counters
    result,                 \* how the last run ended
    runs,                   \* runs started so far
    status,                 \* history: what the current run did with each expiration
    listed,                 \* history: instruments listed by the last fetch
    outs,                   \* history: what each listed option met in the last fetch
    calls,                  \* history: market-data calls of the last fetch, one
                            \*          entry per call: the set of ids it carried
    prevResult,             \* history: how the run before the current one ended
    listedFor,              \* history: the well-formed instruments listed for an
                            \*          expiration when it was written
    prevFailed,             \* history: while a run is going, the expirations whose
                            \*          fetch failed in the run before it
    rowsBefore,             \* history: the rows the file held when the current
                            \*          run started
    faults,                 \* deviations injected so far
    table,                  \* the DataFrame handed to an analytics function
    apc,                    \* "off", "input" (table read) or "done" (function returned)
    aout                    \* what the analytics function returned

dvars == << file, pc, symbol, continue_mode, expiration_dates,
           completed_expirations, is_first_write, idx, options_data,
           total_options, skipped, fetched, result, runs, status, listed, outs,
           calls, prevResult, listedFor, prevFailed, rowsBefore, faults >>
avars == << table, apc, aout >>
vars  == << dvars, avars >>

\* ------------------------------------------------------------- the catalog

\* The instrument with id k, as find_options_by_expiration lists it.  The
\* listing is not in the writer's sort order (put 1, call 1, put 2, ...).
Instrument(k) ==
    [ id     |-> k,
      type   |-> IF k % 2 = 1 THEN "put" ELSE "call",
      strike |-> (k + 1) \div 2 ]

\* The duplicate-free expiration lists get_chains can return: any subset of
\* the dates, in ascending order.
RECURSIVE AscSeq(_)
AscSeq(S) ==
    IF S = {} THEN << >>
    ELSE LET m == CHOOSE x \in S : \A y \in S : x <= y
         IN  << m >> \o AscSeq(S \ {m})

\* get_expiration_dates: the list, or [] when the chain is missing or the call
\* raised.
get_expiration_dates == { AscSeq(S) : S \in SUBSET Exps }

\* ------------------------------------------------------------------ helpers

Range(s) == { s[k] : k \in 1..Len(s) }

get_completed_none(f) == {}

\* get_completed_expirations: the distinct expiration_date values of the file;
\* the empty set when the file does not exist, when read_csv raises (a file of
\* zero bytes, a file that is no CSV) and when the table has no
\* expiration_date column.
get_completed_expirations(f) ==
    IF ~f.exists THEN {}
    ELSE IF ~f.header THEN {}
    ELSE IF f.format = "garbled" THEN {}
    ELSE IF f.format = "other" THEN {}
    ELSE { f.rows[k].expiration_date : k \in 1..Len(f.rows) }

\* df.sort_values(['option_type', 'strike_price']): "call" < "put".
RowLess(a, b) ==
    \/ a.option_type = "call" /\ b.option_type = "put"
    \/ a.option_type = b.option_type /\ a.strike_price < b.strike_price

RECURSIVE Insert(_, _)
Insert(r, s) ==
    IF s = << >> THEN << r >>
    ELSE IF RowLess(r, Head(s)) THEN << r >> \o s
    ELSE << Head(s) >> \o Insert(r, Tail(s))

RECURSIVE sort_values(_)
sort_values(s) ==
    IF s = << >> THEN << >> ELSE Insert(Head(s), sort_values(Tail(s)))

\* What one pass of the per-option loop can meet:
\*   "malformed" : float(option['strike_price']) or option['type'] raises,
\*                 before any network call;
\*   "error"     : get_option_market_data_by_id raises;
\*   "empty"     : it returns nothing;
\*   "data"      : it returns market data.
Outcomes == { "malformed", "error", "empty", "data" }

\* The record built for instrument k of expiration e, in a run for symbol.
Record(e, k) ==
    [ symbol          |-> symbol,
      expiration_date |-> e,
      option_type     |-> Instrument(k).type,
      strike_price    |-> Instrument(k).strike ]

\* The listed options whose strike and type can be read.
WellFormed(n, out) == { k \in 1..n : out[k] # "malformed" }

KeepsAnyReply(o) == o \in { "data", "empty" }

\* An option yields a record only when its market data came back non-empty.
Keeps(o) == o = "data"

\* batch_options after the loop over n listed options with outcomes out.
RECURSIVE batch_options(_, _, _)
batch_options(e, n, out) ==
    IF n = 0 THEN << >>
    ELSE batch_options(e, n - 1, out) \o
         (IF Keeps(out[n]) THEN << Record(e, n) >> ELSE << >>)

\* The market-data calls the loop issues: one per option that reached
\* get_option_market_data_by_id, carrying that option's id alone.
RECURSIVE market_data_calls(_, _)
market_data_calls(n, out) ==
    IF n = 0 THEN << >>
    ELSE market_data_calls(n - 1, out) \o
         (IF out[n] # "malformed" THEN << {n} >> ELSE << >>)

None == [ ok |-> FALSE, recs |-> << >> ]
Some(recs) == [ ok |-> TRUE, recs |-> recs ]

\* The format of a file is "chain" (the columns the writer emits), "other" (a
\* CSV without the expiration_date column), "garbled" (no CSV: read_csv
\* raises) or "none" (no file).
NoFile == [ exists |-> FALSE, header |-> FALSE, rows |-> << >>, format |-> "none" ]

\* A file as mode 'w' leaves it when it is opened.
Truncated == [ exists |-> TRUE, header |-> FALSE, rows |-> << >>, format |-> "chain" ]

\* pd.read_csv(output_file) and the columns the summary reads: the file has
\* content and it is a table of the writer's columns.
ReadsBack(f) == f.header /\ f.format = "chain"

\* -------------------------------------------------------------------- Init

\* No run yet.
RunInit ==
    /\ pc = "idle"
    /\ symbol = Ticker
    /\ continue_mode = FALSE
    /\ expiration_dates = << >>
    /\ completed_expirations = {}
    /\ is_first_write = TRUE
    /\ idx = 1
    /\ options_data = None
    /\ total_options = 0
    /\ skipped = 0
    /\ fetched = 0
    /\ result = "none yet"
    /\ runs = 0
    /\ status = [ e \in Exps |-> "PENDING" ]
    /\ listed = 0
    /\ outs = << >>
    /\ calls = << >>
    /\ prevResult = "none yet"
    /\ listedFor = [ e \in Exps |-> 0 ]
    /\ prevFailed = {}
    /\ rowsBefore = 0
    /\ faults = 0

\* The runs of Spec start without an output file.
DownloadInit ==
    /\ file = NoFile
    /\ RunInit

NoOutput == [ fn |-> "none" ]

Init ==
    /\ DownloadInit
    /\ table = << >>
    /\ apc = "off"
    /\ aout = NoOutput

\* ------------------------------------------------------------------ actions

CurrentExp == expiration_dates[idx]

RunLocals == << symbol, continue_mode, expiration_dates, completed_expirations,
               rowsBefore >>
Counters  == << total_options, skipped, fetched >>
History   == << prevResult, listedFor, prevFailed >>

FullList == AscSeq(Exps)

\* What the outcomes out of a listing of n options cost the fault budget.
Cost(n, out) ==
    Cardinality({ k \in 1..n : out[k] # "data" }) + (IF n < NumInstr THEN 1 ELSE 0)

\* "if continue_mode and os.path.exists(output_file)".
Resuming(cm, f) == cm /\ f.exists

WriteConflictOff(cm, f) == FALSE

\* "elif os.path.exists(output_file) and not continue_mode".
WriteConflict(cm, f) == f.exists /\ ~cm

\* download_full_chain(sym, output_file, cm), from its entry to the first pass
\* of the for loop: enumerate the expirations, then look at the output file.
Begin(sym, cm, dates) ==
    /\ UNCHANGED avars
    /\ pc = "idle"
    /\ runs < MaxRuns
    /\ runs' = runs + 1
    /\ symbol' = sym
    /\ rowsBefore' = Len(file.rows)
    /\ faults' = faults + (IF dates = FullList THEN 0 ELSE 1)
    /\ faults' <= MaxFaults
    /\ continue_mode' = cm
    /\ expiration_dates' = dates
    /\ idx' = 1
    /\ options_data' = None
    /\ total_options' = 0
    /\ skipped' = 0
    /\ fetched' = 0
    /\ status' = [ e \in Exps |-> "PENDING" ]
    /\ listed' = 0
    /\ outs' = << >>
    /\ calls' = << >>
    /\ prevResult' = result
    /\ UNCHANGED << file, listedFor >>
    /\ IF dates = << >>
       THEN \* "No expiration dates found": return None
            /\ prevFailed' = {}
            /\ result' = "none"
            /\ pc' = "idle"
            /\ completed_expirations' = {}
            /\ is_first_write' = TRUE
       ELSE IF Resuming(cm, file)
       THEN /\ completed_expirations' = get_completed_expirations(file)
            /\ is_first_write' = (get_completed_expirations(file) = {})
            /\ prevFailed' = { e \in Exps : status[e] = "FAILED" }
            /\ result' = "running"
            /\ pc' = "loop"
       ELSE IF WriteConflict(cm, file)
       THEN \* "File already exists": return None
            /\ prevFailed' = {}
            /\ result' = "none"
            /\ pc' = "idle"
            /\ completed_expirations' = {}
            /\ is_first_write' = TRUE
       ELSE /\ completed_expirations' = {}
            /\ is_first_write' = TRUE
            /\ prevFailed' = { e \in Exps : status[e] = "FAILED" }
            /\ result' = "running"
            /\ pc' = "loop"

\* A run for the same symbol as the runs before it.
StartRun(cm, dates) == Begin(symbol, cm, dates)

\* The loop's first branch: the expiration is in the checkpoint set.
SkipExpiration ==
    /\ UNCHANGED avars
    /\ pc = "loop"
    /\ idx <= Len(expiration_dates)
    /\ CurrentExp \in completed_expirations
    /\ skipped' = skipped + 1
    /\ idx' = idx + 1
    /\ status' = [ status EXCEPT ![CurrentExp] = "SKIPPED" ]
    /\ UNCHANGED << faults, file, pc, RunLocals, is_first_write, options_data,
                    total_options, fetched, result, runs, listed, outs, calls, History >>

\* fetch_options_for_expiration: None when the listing call raised, [] when
\* it listed nothing, else the records of the options whose market data came.
FetchExpiration ==
    /\ UNCHANGED avars
    /\ pc = "loop"
    /\ idx <= Len(expiration_dates)
    /\ CurrentExp \notin completed_expirations
    /\ \/ /\ faults < MaxFaults
          /\ faults' = faults + 1
          /\ options_data' = None
          /\ listed' = 0
          /\ outs' = << >>
          /\ calls' = << >>
       \/ /\ faults < MaxFaults
          /\ faults' = faults + 1
          /\ options_data' = Some(<< >>)
          /\ listed' = 0
          /\ outs' = << >>
          /\ calls' = << >>
       \/ \E n \in 1..NumInstr : \E out \in [ 1..n -> Outcomes ] :
          /\ faults + Cost(n, out) <= MaxFaults
          /\ faults' = faults + Cost(n, out)
          /\ options_data' = Some(batch_options(CurrentExp, n, out))
          /\ listed' = n
          /\ outs' = out
          /\ calls' = market_data_calls(n, out)
    /\ pc' = "fetched"
    /\ UNCHANGED << file, RunLocals, is_first_write, idx, Counters, result,
                    runs, status, History >>

FetchFailedAborts ==
    /\ UNCHANGED avars
    /\ pc = "fetched"
    /\ ~options_data.ok
    /\ status' = [ status EXCEPT ![CurrentExp] = "FAILED" ]
    /\ result' = "none"
    /\ pc' = "idle"
    /\ options_data' = None
    /\ listed' = 0
    /\ outs' = << >>
    /\ calls' = << >>
    /\ prevFailed' = {}
    /\ UNCHANGED << faults, file, RunLocals, is_first_write, idx, Counters,
                    runs, prevResult, listedFor >>

\* The fetch returned None: "fetch failed, will retry on resume".
FetchFailed ==
    /\ UNCHANGED avars
    /\ pc = "fetched"
    /\ ~options_data.ok
    /\ status' = [ status EXCEPT ![CurrentExp] = "FAILED" ]
    /\ idx' = idx + 1
    /\ pc' = "loop"
    /\ options_data' = None
    /\ listed' = 0
    /\ outs' = << >>
    /\ calls' = << >>
    /\ UNCHANGED << faults, file, RunLocals, is_first_write, Counters, result, runs,
                    History >>

NoDataCounted ==
    /\ UNCHANGED avars
    /\ pc = "fetched"
    /\ options_data.ok
    /\ Len(options_data.recs) = 0
    /\ status' = [ status EXCEPT ![CurrentExp] = "EMPTY" ]
    /\ fetched' = fetched + 1
    /\ idx' = idx + 1
    /\ pc' = "loop"
    /\ options_data' = None
    /\ listed' = 0
    /\ outs' = << >>
    /\ calls' = << >>
    /\ UNCHANGED << faults, file, RunLocals, is_first_write, total_options, skipped,
                    result, runs, History >>

\* The fetch returned an empty list: "(no data)", nothing is written.
NoData ==
    /\ UNCHANGED avars
    /\ pc = "fetched"
    /\ options_data.ok
    /\ Len(options_data.recs) = 0
    /\ status' = [ status EXCEPT ![CurrentExp] = "EMPTY" ]
    /\ idx' = idx + 1
    /\ pc' = "loop"
    /\ options_data' = None
    /\ listed' = 0
    /\ outs' = << >>
    /\ calls' = << >>
    /\ UNCHANGED << faults, file, RunLocals, is_first_write, Counters, result, runs,
                    History >>

\* df.to_csv opens the file: mode 'w' creates or truncates it, mode 'a' leaves
\* what is there.
WriteOpen ==
    /\ UNCHANGED avars
    /\ pc = "fetched"
    /\ options_data.ok
    /\ Len(options_data.recs) > 0
    /\ file' = IF is_first_write
               THEN Truncated
               ELSE [ file EXCEPT !.exists = TRUE ]
    /\ pc' = "writing"
    /\ UNCHANGED << faults, RunLocals, is_first_write, idx, options_data, Counters,
                    result, runs, status, listed, outs, calls, History >>

\* df.to_csv writes the header (first write only) and the sorted rows, and
\* closes the file; then the counters are updated.
WriteRows ==
    /\ UNCHANGED avars
    /\ pc = "writing"
    /\ file' = [ file EXCEPT
                   !.header = file.header \/ is_first_write,
                   !.rows   = file.rows \o sort_values(options_data.recs) ]
    /\ total_options' = total_options + Len(options_data.recs)
    /\ fetched' = fetched + 1
    /\ is_first_write' = FALSE
    /\ status' = [ status EXCEPT ![CurrentExp] = "COMMITTED" ]
    /\ listedFor' = [ listedFor EXCEPT
                        ![CurrentExp] = Cardinality(WellFormed(listed, outs)) ]
    /\ idx' = idx + 1
    /\ pc' = "loop"
    /\ options_data' = None
    /\ listed' = 0
    /\ outs' = << >>
    /\ calls' = << >>
    /\ UNCHANGED << faults, RunLocals, skipped, result, runs, prevResult,
                    prevFailed >>

FinishNeedsWrite ==
    /\ UNCHANGED avars
    /\ pc = "loop"
    /\ idx > Len(expiration_dates)
    /\ result' = IF fetched = 0 THEN "none"
                 ELSE IF ~ReadsBack(file) THEN "error"
                 ELSE "path"
    /\ pc' = "idle"
    /\ prevFailed' = {}
    /\ UNCHANGED << faults, file, RunLocals, is_first_write, idx, options_data,
                    Counters, runs, status, listed, outs, calls, prevResult,
                    listedFor >>

\* After the loop: the summary is read back from the file (read_csv raises on
\* a file of zero bytes) and the path is returned; None without a file.
Finish ==
    /\ UNCHANGED avars
    /\ pc = "loop"
    /\ idx > Len(expiration_dates)
    /\ result' = IF ~file.exists THEN "none"
                 ELSE IF ~ReadsBack(file) THEN "error"
                 ELSE "path"
    /\ pc' = "idle"
    /\ prevFailed' = {}
    /\ UNCHANGED << faults, file, RunLocals, is_first_write, idx, options_data,
                    Counters, runs, status, listed, outs, calls, prevResult,
                    listedFor >>

\* KeyboardInterrupt, caught in main: the run ends wherever it is.  A file
\* being written is closed with what to_csv had written.
Interrupt ==
    /\ UNCHANGED avars
    /\ pc \in { "loop", "fetched", "writing" }
    /\ faults < MaxFaults
    /\ faults' = faults + 1
    /\ result' = "interrupted"
    /\ pc' = "idle"
    /\ options_data' = None
    /\ listed' = 0
    /\ outs' = << >>
    /\ calls' = << >>
    /\ prevFailed' = {}
    /\ UNCHANGED << file, RunLocals, is_first_write, idx, Counters, runs,
                    status, prevResult, listedFor >>

Next ==
    \/ \E cm \in BOOLEAN : \E dates \in get_expiration_dates : StartRun(cm, dates)
    \/ SkipExpiration
    \/ FetchExpiration
    \/ FetchFailed
    \/ NoData
    \/ WriteOpen
    \/ WriteRows
    \/ Finish
    \/ Interrupt

Spec == Init /\ [][Next]_vars

\* ------------------------------------------------- runs against any target
\* The output path is an argument (--output / --csv): a run can be pointed at
\* a file the program did not write, and each run names its own symbol.

\* The lines of a file that is not a table of the writer's columns.
Line(k) == [ line |-> k ]

\* What can be at the output path before the first run: nothing, a file of
\* zero bytes, a table of the writer's columns without a row, a CSV with other
\* columns, a file that is no CSV.
ExistingTargets ==
    { NoFile,
      Truncated,
      [ exists |-> TRUE, header |-> TRUE, rows |-> << >>, format |-> "chain" ],
      [ exists |-> TRUE, header |-> TRUE, rows |-> << Line(1), Line(2) >>,
        format |-> "other" ],
      [ exists |-> TRUE, header |-> TRUE, rows |-> << Line(1), Line(2) >>,
        format |-> "garbled" ] }

TargetsInit ==
    /\ file \in ExistingTargets
    /\ RunInit
    /\ table = << >>
    /\ apc = "off"
    /\ aout = NoOutput

\* A run for any symbol.
StartRunFor(sym, cm, dates) == Begin(sym, cm, dates)

TargetsNext ==
    \/ \E sym \in Symbols : \E cm \in BOOLEAN : \E dates \in get_expiration_dates :
          StartRunFor(sym, cm, dates)
    \/ SkipExpiration
    \/ FetchExpiration
    \/ FetchFailed
    \/ NoData
    \/ WriteOpen
    \/ WriteRows
    \/ Finish
    \/ Interrupt

SpecTargets == TargetsInit /\ [][TargetsNext]_vars

\* =============================================================== analytics
\* analyze_options_chain.py.  A table is a sequence of rows with the columns
\* the three functions read; volume, open interest and strike are integers.
\* A ratio rounded to 2 decimals is kept as its number of hundredths.

MaxRows == 4    \* rows of a table handed to the ratio and max-pain functions
MaxFill == 50   \* most like rows added to a table of the unusual-activity family

Row(e, t, k, v, oi) ==
    [ expiration_date |-> e, option_type |-> t, strike_price |-> k,
      volume |-> v, open_interest |-> oi ]

RECURSIVE SetToSeq(_)
SetToSeq(S) ==
    IF S = {} THEN << >>
    ELSE LET x == CHOOSE y \in S : TRUE IN << x >> \o SetToSeq(S \ {x})

\* The non-decreasing sequences of at most m numbers of lo..hi.
RECURSIVE NonDecreasing(_, _, _)
NonDecreasing(m, lo, hi) ==
    IF m = 0 THEN { << >> }
    ELSE { << >> } \cup
         UNION { { << k >> \o t : t \in NonDecreasing(m - 1, k, hi) } : k \in lo..hi }

\* Tables for the ratio function: two expirations, volumes and open interests
\* of the spec's example among them; the strike follows the row's position.
RatioKinds ==
    SetToSeq({ Row(e, t, 100, vo[1], vo[2]) :
                 e \in {1, 2}, t \in {"call", "put"},
                 vo \in { <<0, 0>>, <<5, 0>>, <<5, 20>>, <<10, 5>>, <<20, 10>> } })
RatioTables(m) ==
    { [ k \in 1..Len(s) |-> [ RatioKinds[s[k]] EXCEPT !.strike_price = 100 + 5 * k ] ] :
        s \in NonDecreasing(m, 1, Len(RatioKinds)) }

\* Tables for max pain: strikes 100, 105, 110 of expiration 1 with open
\* interest 0, 5 or 10, and rows of another expiration to be filtered out.
PainKinds ==
    SetToSeq({ Row(1, t, k, 0, oi) :
                 t \in {"call", "put"}, k \in {100, 105, 110}, oi \in {0, 5, 10} }
             \cup { Row(2, "call", 95, 0, 10), Row(2, "put", 115, 0, 10) })
PainTables(m) ==
    { [ k \in 1..Len(s) |-> PainKinds[s[k]] ] :
        s \in NonDecreasing(m, 1, Len(PainKinds)) }

\* Tables for unusual activity: up to two rows of mixed volume and open
\* interest, then n like rows (distinct strikes) of high volume.
ActivityKinds ==
    SetToSeq({ Row(1, "call", 100, v, oi) : v \in {0, 5, 20}, oi \in {0, 10} })
Fillers == { Row(1, "put", 100, 40, 10), Row(1, "put", 100, 20, 0) }
FillCounts(m) == (0..3) \cup ((m - 3)..m)
ActivityTables(m) ==
    { [ k \in 1..(Len(s) + n) |->
          IF k <= Len(s)
          THEN [ ActivityKinds[s[k]] EXCEPT !.strike_price = 100 + k ]
          ELSE [ f EXCEPT !.strike_price = 100 + k ] ] :
        s \in NonDecreasing(2, 1, Len(ActivityKinds)), f \in Fillers, n \in FillCounts(m) }

\* ------------------------------------------------- calculate_put_call_ratios

RECURSIVE SumVolume(_)
SumVolume(rows) ==
    IF rows = << >> THEN 0 ELSE Head(rows).volume + SumVolume(Tail(rows))

RECURSIVE SumOpenInterest(_)
SumOpenInterest(rows) ==
    IF rows = << >> THEN 0 ELSE Head(rows).open_interest + SumOpenInterest(Tail(rows))

\* round(p / c, 2) in hundredths, a tie going to the even hundredth.
Round2(p, c) ==
    LET q == (100 * p) \div c
        r == (100 * p) % c
    IN  IF 2 * r < c THEN q
        ELSE IF 2 * r > c THEN q + 1
        ELSE IF q % 2 = 0 THEN q ELSE q + 1

RatioInverted(put, call) == IF put > 0 THEN Round2(call, put) ELSE 0

\* "put / call if call > 0 else 0", rounded.
Ratio(put, call) == IF call > 0 THEN Round2(put, call) ELSE 0

calculate_put_call_ratios(df) ==
    LET dates == AscSeq({ df[k].expiration_date : k \in 1..Len(df) })
    IN  [ d \in 1..Len(dates) |->
            LET exp_data == SelectSeq(df, LAMBDA r : r.expiration_date = dates[d])
                callrows == SelectSeq(exp_data, LAMBDA r : r.option_type = "call")
                putrows  == SelectSeq(exp_data, LAMBDA r : r.option_type = "put")
            IN  [ expiration_date       |-> dates[d],
                  call_volume           |-> SumVolume(callrows),
                  put_volume            |-> SumVolume(putrows),
                  put_call_volume_ratio |-> Ratio(SumVolume(putrows), SumVolume(callrows)),
                  call_oi               |-> SumOpenInterest(callrows),
                  put_oi                |-> SumOpenInterest(putrows),
                  put_call_oi_ratio     |-> Ratio(SumOpenInterest(putrows),
                                                  SumOpenInterest(callrows)) ] ]

\* -------------------------------------------------------- calculate_max_pain

\* The inner loops: the in-the-money calls and puts at a candidate strike.
RECURSIVE total_value(_, _)
total_value(exp_data, strike) ==
    IF exp_data = << >> THEN 0
    ELSE LET r == Head(exp_data)
         IN  ( IF r.option_type = "call" /\ r.strike_price < strike
               THEN (strike - r.strike_price) * r.open_interest * 100
               ELSE IF r.option_type = "put" /\ r.strike_price > strike
               THEN (r.strike_price - strike) * r.open_interest * 100
               ELSE 0 )
             + total_value(Tail(exp_data), strike)

NoStrike == [ found |-> FALSE, strike |-> 0, min_total_value |-> 0 ]

BeatsOrTies(total, best) == ~best.found \/ total <= best.min_total_value

\* "if total_value < min_total_value", min_total_value starting at infinity.
Beats(total, best) == ~best.found \/ total < best.min_total_value

\* The loop over the sorted strikes from position k on.
RECURSIVE max_pain_loop(_, _, _, _)
max_pain_loop(exp_data, strikes, k, best) ==
    IF k > Len(strikes) THEN best
    ELSE LET total == total_value(exp_data, strikes[k])
         IN  max_pain_loop(exp_data, strikes, k + 1,
                 IF Beats(total, best)
                 THEN [ found |-> TRUE, strike |-> strikes[k], min_total_value |-> total ]
                 ELSE best)

calculate_max_pain(df, exp_date) ==
    LET exp_data == SelectSeq(df, LAMBDA r : r.expiration_date = exp_date)
        strikes  == AscSeq({ exp_data[k].strike_price : k \in 1..Len(exp_data) })
    IN  IF Len(exp_data) = 0 THEN NoStrike
        ELSE max_pain_loop(exp_data, strikes, 1, NoStrike)

\* --------------------------------------------------- detect_unusual_activity

TopN == 50

\* The rows (by position) with volume > 0.
active_options(df) == { k \in 1..Len(df) : df[k].volume > 0 }

RatioAbove(r) == r.open_interest > 0 /\ 2 * r.volume > r.open_interest

\* volume_oi_ratio >= 0.5, the ratio being 0 without open interest.
RatioAtLeastHalf(r) == r.open_interest > 0 /\ 2 * r.volume >= r.open_interest

\* The sum over the rows I of the volume (or of its square), taken value by
\* value: each distinct volume times the number of rows that have it.
RECURSIVE SumByValue(_, _, _, _)
SumByValue(df, I, values, square) ==
    IF values = {} THEN 0
    ELSE LET v == CHOOSE x \in values : TRUE
         IN  (IF square THEN v * v ELSE v) * Cardinality({ k \in I : df[k].volume = v })
             + SumByValue(df, I, values \ {v}, square)

SumOver(df, I, square) ==
    SumByValue(df, I, { df[k].volume : k \in I }, square)

\* volume >= mean + 2 * std over the active rows, std the sample deviation
\* (not a number for a single row, and then no row is above it):
\*   v - S/n >= 2 * sqrt((n*Q - S^2) / (n*(n-1))).
\* n, S and Q are the number of active rows, the sum of their volumes and the
\* sum of the squares.
HighVolume(v, n, S, Q) ==
    /\ n >= 2
    /\ n * v >= S
    /\ (n * v - S) * (n * v - S) * (n - 1) >= 4 * n * (n * Q - S * S)

unusual(df) ==
    LET A == active_options(df)
        n == Cardinality(A)
        S == SumOver(df, A, FALSE)
        Q == SumOver(df, A, TRUE)
    IN  { k \in A : HighVolume(df[k].volume, n, S, Q) \/ RatioAtLeastHalf(df[k]) }

\* The subsets of S with d elements (S a set of numbers).
RECURSIVE KSubsets(_, _)
KSubsets(S, d) ==
    IF d = 0 THEN { {} }
    ELSE UNION { { {x} \cup T : T \in KSubsets({ y \in S : y > x }, d - 1) } : x \in S }

\* sort_values('volume', ascending=False).head(n): the n rows of highest
\* volume; which of the rows that tie at the cut are kept is left to the sort.
head_by_volume(df, F, n) ==
    IF Cardinality(F) <= n THEN { F }
    ELSE LET cut   == CHOOSE v \in { df[k].volume : k \in F } :
                        /\ Cardinality({ k \in F : df[k].volume > v }) < n
                        /\ Cardinality({ k \in F : df[k].volume >= v }) >= n
             above == { k \in F : df[k].volume > cut }
             tied  == { k \in F : df[k].volume = cut }
             drop  == Cardinality(above) + Cardinality(tied) - n
         IN  { above \cup (tied \ D) : D \in KSubsets(tied, drop) }

\* The positions in df of the rows of the returned frame.
detect_unusual_activity(df) ==
    IF active_options(df) = {} THEN { {} }
    ELSE LET flagged == unusual(df) IN head_by_volume(df, flagged, TopN)

\* ------------------------------------------------------------- the actions

AnalyticsInit(tables) ==
    /\ DownloadInit
    /\ table \in tables
    /\ apc = "input"
    /\ aout = NoOutput

ComputeRatios ==
    /\ apc = "input"
    /\ aout' = [ fn |-> "ratios", value |-> calculate_put_call_ratios(table) ]
    /\ apc' = "done"
    /\ UNCHANGED << dvars, table >>

ComputeMaxPain(exp_date) ==
    /\ apc = "input"
    /\ aout' = [ fn |-> "max_pain", exp_date |-> exp_date,
                 value |-> calculate_max_pain(table, exp_date) ]
    /\ apc' = "done"
    /\ UNCHANGED << dvars, table >>

DetectUnusual ==
    /\ apc = "input"
    /\ \E kept \in detect_unusual_activity(table) :
          aout' = [ fn |-> "unusual", value |-> kept ]
    /\ apc' = "done"
    /\ UNCHANGED << dvars, table >>

RatiosInit  == AnalyticsInit(RatioTables(MaxRows))
RatiosNext  == ComputeRatios
SpecRatios  == RatiosInit /\ [][RatiosNext]_vars

MaxPainInit == AnalyticsInit(PainTables(MaxRows))
MaxPainNext == \E exp_date \in {1, 2} : ComputeMaxPain(exp_date)
SpecMaxPain == MaxPainInit /\ [][MaxPainNext]_vars

UnusualInit == AnalyticsInit(ActivityTables(MaxFill))
UnusualNext == DetectUnusual
SpecUnusual == UnusualInit /\ [][UnusualNext]_vars

\* =================================================================== claims

\* The rows of expiration e in a row sequence, and the expirations that have
\* rows in it.
RowsOf(rows, e) == { k \in 1..Len(rows) : rows[k].expiration_date = e }
ExpirationsIn(rows) == { rows[k].expiration_date : k \in 1..Len(rows) }
Processed == { "SKIPPED", "COMMITTED", "EMPTY", "FAILED" }
RunOver == pc = "idle" /\ result \in { "path", "none", "error" }

\* ----------------------------------------------------------------------- C1
NoDuplicateKeys ==
    \A j, k \in 1..Len(file.rows) : j # k => file.rows[j] # file.rows[k]

NeverWrittenAgain ==
    \A e \in ExpirationsIn(file.rows) :
        /\ Len(file'.rows) >= Len(file.rows)
        /\ \A k \in 1..Len(file'.rows) :
              file'.rows[k].expiration_date = e
                  => k <= Len(file.rows) /\ file.rows[k] = file'.rows[k]

ResumeCompletes ==
    ( /\ RunOver
      /\ result = "path"
      /\ idx > Len(expiration_dates)
      /\ \A e \in Range(expiration_dates) : status[e] \in { "SKIPPED", "COMMITTED" } )
    => /\ Range(expiration_dates) \subseteq ExpirationsIn(file.rows)
       /\ expiration_dates = FullList => ExpirationsIn(file.rows) = Exps

\* C1: over any sequence of fresh and resume runs against one output file,
\* with interrupts and fetch failures, the file never holds two rows with the
\* same (expiration_date, option_type, strike_price); the rows of an
\* expiration that is in the file are never removed, changed or added to; and
\* a run that ends with every catalog expiration skipped or committed leaves
\* every one of them in the file (exactly {A,B,C} for the catalog [A,B,C]).
C1_ResumeIdempotent ==
    /\ []NoDuplicateKeys
    /\ [][NeverWrittenAgain]_vars
    /\ []ResumeCompletes

\* A run over the full list was interrupted after all but the last expiration
\* were committed; the resume run skipped those and committed the last.
C1_Witness ==
    /\ RunOver /\ result = "path" /\ continue_mode
    /\ prevResult = "interrupted"
    /\ expiration_dates = FullList
    /\ \A e \in Exps : status[e] = IF e = NumExp THEN "COMMITTED" ELSE "SKIPPED"
    /\ ExpirationsIn(file.rows) = Exps
    /\ Len(file.rows) = NumExp * NumInstr

\* ----------------------------------------------------------------------- C2
\* C2: every expiration in the resume checkpoint set of the file has a row
\* for every (well-formed) instrument the catalog listed for it when it was
\* written.
C2_AllOrNothing ==
    \A e \in get_completed_expirations(file) :
        Cardinality(RowsOf(file.rows, e)) = listedFor[e]

\* ----------------------------------------------------------------------- C3
\* C3: a run started without resume mode against a target that exists with
\* rows returns no path at once, without entering the fetch loop, and leaves
\* the target as it was.
C3_WriteConflictGuard ==
    [][ ( /\ pc = "idle" /\ runs' # runs
          /\ ~continue_mode' /\ expiration_dates' # << >>
          /\ file.exists /\ Len(file.rows) > 0 )
        => ( /\ pc' = "idle" /\ result' = "none"
             /\ file' = file
             /\ \A e \in Exps : status'[e] = "PENDING" ) ]_vars

C3_Witness ==
    /\ pc = "idle" /\ result = "none" /\ ~continue_mode
    /\ expiration_dates # << >>
    /\ file.exists /\ Len(file.rows) > 0
    /\ \A e \in Exps : status[e] = "PENDING"

\* ----------------------------------------------------------------------- C4
\* C4: a run in which a fetch failed still ends with every catalog expiration
\* processed; an expiration whose fetch failed has no row in the file; and
\* the next run does not skip an expiration that failed in the run before it.
C4_FailureIsolated ==
    /\ ( RunOver /\ \E e \in Exps : status[e] = "FAILED" )
           => \A e \in Range(expiration_dates) : status[e] \in Processed
    /\ \A e \in Exps : status[e] = "FAILED" => e \notin ExpirationsIn(file.rows)
    /\ \A e \in prevFailed : status[e] # "SKIPPED"

\* The first expiration failed in the run before; that run went on to commit
\* the second; the resume run fetched the first again and skipped the second.
C4_Witness ==
    /\ continue_mode /\ NumExp >= 2
    /\ 1 \in prevFailed /\ status[1] = "COMMITTED"
    /\ 2 \in completed_expirations /\ status[2] = "SKIPPED"

\* ----------------------------------------------------------------------- C5
\* C5 as stated: n listed references cost ceil(n / 50) market-data calls of
\* at most 50 references each.
C5_BatchedCalls ==
    ( pc = "fetched" /\ options_data.ok )
    => LET refs == Cardinality(WellFormed(listed, outs))
       IN  /\ Len(calls) = (refs + 49) \div 50
           /\ \A c \in 1..Len(calls) : Cardinality(calls[c]) <= 50

\* C5 as the code has it: one market-data call per listed reference whose
\* strike and type could be read, each carrying that one reference; and the
\* result holds exactly one record for every reference whose call returned
\* data, none for any other.
C5_OneCallPerReference ==
    ( pc = "fetched" /\ options_data.ok )
    => /\ Len(calls) = Cardinality({ k \in 1..listed : outs[k] # "malformed" })
       /\ \A c \in 1..Len(calls) : calls[c] \subseteq 1..listed
       /\ \A c \in 1..Len(calls) : Cardinality(calls[c]) = 1
       /\ \A k \in 1..listed :
             ( outs[k] # "malformed" ) <=> \E c \in 1..Len(calls) : calls[c] = {k}
       /\ \A c, d \in 1..Len(calls) : c # d => calls[c] # calls[d]
       /\ \A k \in 1..listed :
             Cardinality({ j \in 1..Len(options_data.recs) :
                             options_data.recs[j] = Record(CurrentExp, k) })
               = IF outs[k] = "data" THEN 1 ELSE 0

C5_Witness ==
    /\ pc = "fetched" /\ options_data.ok
    /\ listed = NumInstr /\ listed >= 2
    /\ Len(calls) = listed
    /\ Len(options_data.recs) = listed

\* ----------------------------------------------------------------------- C6
\* C6: the records assembled for an expiration are as many as the
\* (well-formed) instruments listed for it: an instrument without market data
\* still yields a record.
C6_OneRecordPerInstrument ==
    ( pc = "fetched" /\ options_data.ok )
    => Len(options_data.recs) = Cardinality(WellFormed(listed, outs))

\* ----------------------------------------------------------------------- C7
\* C7: after an interrupt every expiration in the target is complete, no
\* expiration is there with part of its rows, and what was not committed is
\* absent, so that the next resume run fetches it.
C7_InterruptLeavesResumable ==
    ( pc = "idle" /\ result = "interrupted" )
    => /\ \A e \in ExpirationsIn(file.rows) :
             /\ Cardinality(RowsOf(file.rows, e)) = listedFor[e]
             /\ e \in get_completed_expirations(file)
       /\ \A e \in Range(expiration_dates) \ completed_expirations :
             status[e] # "COMMITTED" => e \notin ExpirationsIn(file.rows)

\* ----------------------------------------------------------------------- C8
Max0(x) == IF x > 0 THEN x ELSE 0

\* pain(s) of the claim over the rows I of df.
RECURSIVE Pain(_, _, _)
Pain(df, I, s) ==
    IF I = {} THEN 0
    ELSE LET k == CHOOSE x \in I : TRUE
             r == df[k]
         IN  ( IF r.option_type = "call"
               THEN Max0(s - r.strike_price) * r.open_interest * 100
               ELSE Max0(r.strike_price - s) * r.open_interest * 100 )
             + Pain(df, I \ {k}, s)

\* C8: for an expiration with at least one row, calculate_max_pain returns a
\* strike of that expiration whose pain is the least over its strikes, and
\* the lowest strike among those of least pain.
C8_MaxPainIsLowestArgmin ==
    ( apc = "done" /\ aout.fn = "max_pain" )
    => LET I == { k \in 1..Len(table) : table[k].expiration_date = aout.exp_date }
           K == { table[k].strike_price : k \in I }
           best == aout.value
       IN  I # {} =>
             /\ best.found
             /\ best.strike \in K
             /\ \A s \in K :
                   /\ Pain(table, I, best.strike) <= Pain(table, I, s)
                   /\ Pain(table, I, s) = Pain(table, I, best.strike) => best.strike <= s

\* The spec's example (call 100 with open interest 10, put 110 with 5) beside
\* a strike of no open interest: 100 is returned.
C8_Witness ==
    /\ apc = "done" /\ aout.fn = "max_pain" /\ aout.exp_date = 1
    /\ \E a, b, c \in 1..Len(table) :
          /\ table[a] = Row(1, "call", 100, 0, 10)
          /\ table[b] = Row(1, "put", 110, 0, 5)
          /\ table[c].strike_price = 105 /\ table[c].expiration_date = 1
    /\ aout.value.found /\ aout.value.strike = 100

\* ----------------------------------------------------------------------- C9
RatioFlagged(df) ==
    { k \in 1..Len(df) :
        /\ df[k].volume > 0
        /\ df[k].open_interest > 0
        /\ 2 * df[k].volume >= df[k].open_interest }

\* C9 as stated: no row of volume 0 is in the result, and every row with
\* volume > 0 and volume / open interest >= 0.5 is, whatever else is flagged.
C9_RatioAlwaysListed ==
    ( apc = "done" /\ aout.fn = "unusual" )
    => /\ \A k \in aout.value : table[k].volume # 0
       /\ RatioFlagged(table) \subseteq aout.value

\* C9 as the code has it: no row of volume 0 is in the result; the result has
\* at most 50 rows; and a row with volume > 0 and volume / open interest >=
\* 0.5 is in it unless 50 or more other flagged rows have at least its volume.
C9_RatioListedUnlessCut ==
    ( apc = "done" /\ aout.fn = "unusual" )
    => /\ \A k \in aout.value : table[k].volume # 0
       /\ Cardinality(aout.value) <= TopN
       /\ LET flagged == unusual(table)
          IN  \A k \in RatioFlagged(table) \ aout.value :
                 Cardinality({ j \in flagged \ {k} :
                                 table[j].volume >= table[k].volume }) >= TopN

\* A row at ratio exactly 0.5 is listed beside at least ten others, and a row
\* of volume 0 of the same table is not.
C9_Witness ==
    /\ apc = "done" /\ aout.fn = "unusual"
    /\ Cardinality(aout.value) > 10
    /\ \E k \in aout.value : table[k].volume = 5 /\ table[k].open_interest = 10
    /\ \E k \in 1..Len(table) : table[k].volume = 0 /\ k \notin aout.value

\* ---------------------------------------------------------------------- C10
RECURSIVE Total(_, _, _)
Total(df, I, oi) ==
    IF I = {} THEN 0
    ELSE LET k == CHOOSE x \in I : TRUE
         IN  (IF oi THEN df[k].open_interest ELSE df[k].volume) + Total(df, I \ {k}, oi)

Abs(x) == IF x < 0 THEN -x ELSE x

\* r hundredths is put / call rounded to 2 decimals, and 0 without calls.
IsRounded(r, put, call) ==
    IF call = 0 THEN r = 0 ELSE 2 * Abs(100 * put - r * call) <= call

\* C10: calculate_put_call_ratios returns one row per distinct expiration of
\* the table; its volume ratio is sum(put volume) / sum(call volume) rounded
\* to 2 decimals, 0 when the call volume sum is 0; likewise for open interest.
C10_PutCallRatios ==
    ( apc = "done" /\ aout.fn = "ratios" )
    => LET out == aout.value
           dates == { table[k].expiration_date : k \in 1..Len(table) }
           Of(e, t) == { k \in 1..Len(table) :
                           table[k].expiration_date = e /\ table[k].option_type = t }
       IN  /\ Len(out) = Cardinality(dates)
           /\ { out[d].expiration_date : d \in 1..Len(out) } = dates
           /\ \A d \in 1..Len(out) :
                 LET e == out[d].expiration_date
                 IN  /\ IsRounded(out[d].put_call_volume_ratio,
                                  Total(table, Of(e, "put"), FALSE),
                                  Total(table, Of(e, "call"), FALSE))
                     /\ IsRounded(out[d].put_call_oi_ratio,
                                  Total(table, Of(e, "put"), TRUE),
                                  Total(table, Of(e, "call"), TRUE))

\* The spec's example: call volumes 10 and 20, put volumes 5 and 5 give 0.33;
\* the puts have no open interest and the calls do, so that the open-interest
\* ratio is 0.
C10_Witness ==
    /\ apc = "done" /\ aout.fn = "ratios"
    /\ Len(table) = 4
    /\ \E d \in 1..Len(aout.value) :
          /\ aout.value[d].call_volume = 30
          /\ aout.value[d].put_volume = 10
          /\ aout.value[d].put_call_volume_ratio = 33
          /\ aout.value[d].call_oi > 0
          /\ aout.value[d].put_call_oi_ratio = 0

\* ---------------------------------------------------------------------- C11
\* The run went through its whole loop and returned (or read_csv raised on
\* the way to the summary).
LoopDone ==
    /\ RunOver
    /\ expiration_dates # << >>
    /\ idx > Len(expiration_dates)

With(st) == { e \in Range(expiration_dates) : status[e] = st }

\* C11 as stated: at the end of a run, skipped counts the catalog expirations
\* of the checkpoint set, fetched counts the expirations whose fetch
\* succeeded, one that returned no record included, the records total is the
\* number of rows the run added to the file, and every catalog expiration is
\* skipped, fetched or failed.
C11_TotalsCountEmptyFetch ==
    LoopDone
    => /\ skipped = Cardinality(Range(expiration_dates) \cap completed_expirations)
       /\ fetched = Cardinality(With("COMMITTED") \cup With("EMPTY"))
       /\ total_options = Len(file.rows) - rowsBefore
       /\ skipped + fetched + Cardinality(With("FAILED")) = Len(expiration_dates)

\* C11 as the code has it: skipped counts the catalog expirations of the
\* checkpoint set, fetched counts the expirations for which at least one
\* record was written, the records total is the number of rows the run added
\* to the file, and every catalog expiration is skipped, written, fetched
\* without a record (counted nowhere) or failed (counted nowhere).
C11_TotalsCountWrites ==
    LoopDone
    => /\ skipped = Cardinality(Range(expiration_dates) \cap completed_expirations)
       /\ skipped = Cardinality(With("SKIPPED"))
       /\ fetched = Cardinality(With("COMMITTED"))
       /\ total_options = Len(file.rows) - rowsBefore
       /\ \A e \in Range(expiration_dates) : status[e] \in Processed
       /\ skipped + fetched + Cardinality(With("EMPTY")) + Cardinality(With("FAILED"))
            = Len(expiration_dates)

\* A resume run over the full list skipped an expiration, wrote one, and got
\* an empty list for another, which no counter shows.
C11_Witness ==
    /\ LoopDone /\ continue_mode /\ expiration_dates = FullList
    /\ skipped = 1 /\ fetched = 1 /\ total_options > 0
    /\ With("EMPTY") # {}
    /\ skipped + fetched < Len(expiration_dates)

\* ---------------------------------------------------------------------- C12
\* The run returned at "No expiration dates found".
EmptyCatalog == RunOver /\ runs > 0 /\ expiration_dates = << >>

\* C12 as stated: a run that was not stopped by a write conflict returns the
\* path whenever the target exists at the end, and fails only with a target
\* of zero records and a catalog that was not empty.
C12_SuccessIffTargetExists ==
    ( LoopDone \/ EmptyCatalog )
    => /\ file.exists => result = "path"
       /\ result # "path" => Len(file.rows) = 0 /\ expiration_dates # << >>

\* C12 as the code has it: with an empty catalog the run returns None,
\* whatever the target holds; a run that went through its loop returns the
\* path when the target exists and can be read back, returns None when there
\* is no target, and ends on the error of read_csv when the target has zero
\* bytes; it fails only with a target of zero records.
C12_SuccessIffReadable ==
    /\ EmptyCatalog => result = "none"
    /\ LoopDone
        => /\ result = "path"  <=> file.exists /\ ReadsBack(file)
           /\ result = "none"  <=> ~file.exists
           /\ result = "error" <=> file.exists /\ ~ReadsBack(file)
           /\ result # "path" => Len(file.rows) = 0

\* A resume run skipped every expiration of the catalog and returned the path.
C12_Witness ==
    /\ LoopDone /\ continue_mode /\ result = "path"
    /\ expiration_dates = FullList
    /\ \A e \in Exps : status[e] = "SKIPPED"
    /\ fetched = 0 /\ total_options = 0

\* ---------------------------------------------------------------------- C13
IsPrefix(s, t) == Len(s) <= Len(t) /\ \A k \in 1..Len(s) : t[k] = s[k]

\* C13: in a run in resume mode no step removes, changes or moves a row of
\* the target: the rows before the step are the first rows after it,
\* whatever the target held when the run started.
C13_ResumeOnlyAppends ==
    [][ continue_mode' => IsPrefix(file.rows, file'.rows) ]_vars

\* ---------------------------------------------------------------------- C14
\* C14: the rows of the output file all carry one symbol, and an expiration
\* that a run skips has a row in the file for the symbol of that run.
C14_OneSymbolPerFile ==
    file.format = "chain"
    => /\ \A j, k \in 1..Len(file.rows) : file.rows[j].symbol = file.rows[k].symbol
       /\ \A e \in Exps :
             status[e] = "SKIPPED"
                 => \E k \in 1..Len(file.rows) :
                       /\ file.rows[k].expiration_date = e
                       /\ file.rows[k].symbol = symbol

====
